---------------------------- MODULE Spec2Model ----------------------------
(***************************************************************************)
(* State-machine model of the guided KYC recording pages.                  *)
(*                                                                         *)
(*   page = "assistant" : src/unnamed/part_002, the scripted assistant     *)
(*                        (narration, capture sub-flow, one recording).    *)
(*   page = "recorder"  : src/static/js/recording_assistant.js, the        *)
(*                        simplified recorder (Start / Stop / convert).    *)
(*                                                                         *)
(* A browser tab runs one of the two scripts; both declare the same        *)
(* globals (isRecording, mediaRecorder, recordedChunks, stream,            *)
(* videoBlob), so the model keeps one variable per global and the page     *)
(* selects whose handlers are registered.                                  *)
(*                                                                         *)
(* Every handler is a function from the program state (a record with one   *)
(* field per variable) to the program state, written statement by          *)
(* statement in the order of the source; an action applies one handler to  *)
(* the current state.  JavaScript runs a handler to completion, so a       *)
(* handler is one atomic step.  Indices are 0-based as in the source; a    *)
(* TLA+ sequence is read at index + 1.                                     *)
(***************************************************************************)
EXTENDS Naturals, Sequences, FiniteSets

VARIABLES
    page,                 \* which script the tab has loaded
    scriptData,           \* part_002:3   [kind, sections]
    stream,               \* part_002:13  "pending" | "live" | "denied"
    currentSectionIndex,  \* part_002:4
    currentLineIndex,     \* part_002:5
    isRecording,          \* part_002:8
    isAutoPlaying,        \* part_002:19
    mediaRecorder,        \* part_002:11  0 (null) or the index of a recorder
    recorders,            \* the MediaRecorder objects created so far
    recordedChunks,       \* part_002:12
    videoBlob,            \* part_002:14  [isNull, parts]
    capturedImages,       \* part_002:22
    currentCaptureType,   \* part_002:23  "null" | "pan" | "aadhaar"
    utterances,           \* utterances handed to speechSynthesis whose end/error
                          \* event has not been delivered yet, with their callbacks
    ui,                   \* the DOM properties the handlers assign
    saved,                \* bodies posted to /api/save-captures, in order
    spoken,               \* lines handed to speakText in this session, in order
    clock,                \* number of captureImage calls (Date.now() of the next image)
    delivered,            \* number of dataavailable events delivered so far
    conversions,          \* recorder page: /api/convert-to-mp4 requests in flight
    confirmed,            \* images that were in capturedImages when capture-Next
                          \* advanced the session
    seconds,              \* the timer's count
    timerInterval,        \* TRUE while the setInterval of updateTimer is active
    progress,             \* the width last assigned to each progress bar
    requests              \* /api/save-captures and /api/save-metadata: requests
                          \* in flight, and the metadata submissions made so far

vars == << page, scriptData, stream, currentSectionIndex, currentLineIndex,
           isRecording, isAutoPlaying, mediaRecorder, recorders, recordedChunks,
           videoBlob, capturedImages, currentCaptureType, utterances, ui, saved,
           spoken, clock, delivered, conversions, confirmed,
           seconds, timerInterval, progress, requests >>

----------------------------------------------------------------------------
(* Bounds of the model *)

\* longest script, in sections
MaxSections == 2
\* MediaRecorder objects created in one page load
MaxRecorders == 2
\* captureImage calls in one page load
MaxCaptures == 3
\* ticks of the timer counted in one recording
MaxSeconds == 1
\* submissions of the metadata form in one page load
MaxSubmits == 1

----------------------------------------------------------------------------
(* Script documents: GET /api/get-script *)

Line(g, c, a, t) ==
    [group_with_next |-> g, capture_mode |-> c, action_required |-> a,
     auto_terminate |-> t]

Plain       == Line(FALSE, FALSE, "none", FALSE)
Grouped     == Line(TRUE,  FALSE, "none", FALSE)
CapturePan  == Line(FALSE, TRUE,  "customer_shows_pan", FALSE)
CaptureBare == Line(FALSE, TRUE,  "none", FALSE)
GroupedAadhaar == Line(TRUE, FALSE, "customer_shows_aadhaar", FALSE)
LastLine    == Line(FALSE, FALSE, "none", TRUE)
\* a line inside a group that carries the flags of an anchor
GroupedFlagged == Line(TRUE, TRUE, "none", TRUE)

Section(t, ls) == [auto_terminate |-> t, script_lines |-> ls]

\* The sections scripts are built from: every flag of the document format
\* occurs, on an anchor line and on a line before the anchor, and in a
\* section that is followed by more lines.
SectionCatalogue ==
    { Section(FALSE, << >>),
      Section(FALSE, << Plain >>),
      Section(FALSE, << Grouped, Plain, Plain >>),
      Section(FALSE, << Grouped, Grouped >>),
      Section(FALSE, << CapturePan >>),
      Section(FALSE, << GroupedAadhaar, CaptureBare >>),
      Section(FALSE, << LastLine, Plain >>),
      Section(FALSE, << GroupedFlagged, Plain >>),
      Section(TRUE,  << Plain, Plain >>),
      Section(TRUE,  << LastLine >>) }

RECURSIVE SeqsUpTo(_, _)
SeqsUpTo(S, n) ==
    IF n = 0 THEN { << >> }
    ELSE LET shorter == SeqsUpTo(S, n - 1)
         IN  shorter \cup { Append(q, x) : q \in shorter, x \in S }

Scripts == SeqsUpTo(SectionCatalogue, MaxSections)

\* what response.json() can yield: a script, or a document without sections
Documents ==
    { [kind |-> "script", sections |-> sc] : sc \in Scripts }
        \cup { [kind |-> "malformed", sections |-> << >>] }

\* !scriptData
ScriptIsNull(s) == s.scriptData.kind \in {"pending", "failed"}

----------------------------------------------------------------------------
(* The program state as a record, and its application to the variables *)

Cur ==
    [ page |-> page, scriptData |-> scriptData, stream |-> stream,
      currentSectionIndex |-> currentSectionIndex,
      currentLineIndex |-> currentLineIndex,
      isRecording |-> isRecording, isAutoPlaying |-> isAutoPlaying,
      mediaRecorder |-> mediaRecorder, recorders |-> recorders,
      recordedChunks |-> recordedChunks, videoBlob |-> videoBlob,
      capturedImages |-> capturedImages,
      currentCaptureType |-> currentCaptureType,
      utterances |-> utterances, ui |-> ui, saved |-> saved,
      spoken |-> spoken, clock |-> clock, delivered |-> delivered,
      conversions |-> conversions, confirmed |-> confirmed,
      seconds |-> seconds, timerInterval |-> timerInterval,
      progress |-> progress, requests |-> requests ]

Becomes(s) ==
    /\ page' = s.page
    /\ scriptData' = s.scriptData
    /\ stream' = s.stream
    /\ currentSectionIndex' = s.currentSectionIndex
    /\ currentLineIndex' = s.currentLineIndex
    /\ isRecording' = s.isRecording
    /\ isAutoPlaying' = s.isAutoPlaying
    /\ mediaRecorder' = s.mediaRecorder
    /\ recorders' = s.recorders
    /\ recordedChunks' = s.recordedChunks
    /\ videoBlob' = s.videoBlob
    /\ capturedImages' = s.capturedImages
    /\ currentCaptureType' = s.currentCaptureType
    /\ utterances' = s.utterances
    /\ ui' = s.ui
    /\ saved' = s.saved
    /\ spoken' = s.spoken
    /\ clock' = s.clock
    /\ delivered' = s.delivered
    /\ conversions' = s.conversions
    /\ confirmed' = s.confirmed
    /\ seconds' = s.seconds
    /\ timerInterval' = s.timerInterval
    /\ progress' = s.progress
    /\ requests' = s.requests

\* progress-1 .. progress-8
NumBars == 8

\* A width is the fraction of the bar that is filled, << numerator,
\* denominator >> in lowest terms; << 0, 0 >> is the 0/0 of an empty section.
RECURSIVE GCD(_, _)
GCD(a, b) == IF b = 0 THEN a ELSE GCD(b, a % b)

Ratio(n, d) ==
    IF d = 0 THEN << 0, 0 >>
    ELSE IF n = 0 THEN << 0, 1 >>
    ELSE << n \div GCD(n, d), d \div GCD(n, d) >>

FullWidth == Ratio(1, 1)
ZeroWidth == Ratio(0, 1)

InitialProgress == [i \in 1..NumBars |-> ZeroWidth]

NoRequests == [captures |-> 0, metadata |-> 0, submitted |-> 0]

NullBlob == [isNull |-> TRUE, parts |-> << >>]

\* DOM state before any handler ran: overlays and capture buttons hidden,
\* Start enabled, Stop and Download disabled; on the recorder page Start is
\* displayed and Stop is not.
InitialUi(p) ==
    [ videoOverlay |-> FALSE, captureOverlay |-> FALSE,
      documentIndicator |-> FALSE, captureStatus |-> FALSE,
      captureBtn |-> FALSE, retakeBtn |-> FALSE, captureNextBtn |-> FALSE,
      startBtnDisabled |-> FALSE, stopBtnDisabled |-> (p = "assistant"),
      downloadBtnDisabled |-> TRUE, metadataForm |-> FALSE,
      videoFilename |-> FALSE,
      startBtnShown |-> TRUE, stopBtnShown |-> (p = "assistant") ]

Init ==
    /\ page \in {"assistant", "recorder"}
    /\ scriptData = [kind |-> "pending", sections |-> << >>]
    /\ stream = "pending"
    /\ currentSectionIndex = 0
    /\ currentLineIndex = 0
    /\ isRecording = FALSE
    /\ isAutoPlaying = FALSE
    /\ mediaRecorder = 0
    /\ recorders = << >>
    /\ recordedChunks = << >>
    /\ videoBlob = NullBlob
    /\ capturedImages = << >>
    /\ currentCaptureType = "null"
    /\ utterances = << >>
    /\ ui = InitialUi(page)
    /\ saved = << >>
    /\ spoken = << >>
    /\ clock = 0
    /\ delivered = 0
    /\ conversions = << >>
    /\ confirmed = { }
    /\ seconds = 0
    /\ timerInterval = FALSE
    /\ progress = InitialProgress
    /\ requests = NoRequests


----------------------------------------------------------------------------
(* part_002: the scripted assistant *)

\* the fraction updateProgressBars computes for bar i (part_002:500-508)
ProgressFraction(sections, sec, line, i) ==
    IF i - 1 < sec THEN FullWidth
    ELSE IF i - 1 = sec THEN Ratio(line, Len(sections[i].script_lines))
    ELSE ZeroWidth

\* updateProgressBars (part_002:492-511); reading sections of a document
\* that has none throws
updateProgressBars(s) ==
    IF ScriptIsNull(s) \/ s.scriptData.kind = "malformed" THEN s
    ELSE [s EXCEPT !.progress =
             [i \in 1..NumBars |->
                 IF i <= Len(s.scriptData.sections)
                 THEN ProgressFraction(s.scriptData.sections,
                                       s.currentSectionIndex, s.currentLineIndex, i)
                 ELSE s.progress[i]]]

\* Fault variant of updateTimer: a tick also advances the session.
updateTimer_autoAdvance(s) ==
    LET a == updateProgressBars([s EXCEPT !.seconds = @ + 1])
    IN  IF a.isAutoPlaying /\ a.ui.videoOverlay
        THEN [a EXCEPT !.currentLineIndex = @ + 1, !.ui.videoOverlay = FALSE]
        ELSE a

\* updateTimer (part_002:479-483)
updateTimer(s) == updateProgressBars([s EXCEPT !.seconds = @ + 1])

\* updateTimer (recording_assistant.js:246-249)
simple_updateTimer(s) == [s EXCEPT !.seconds = @ + 1]

\* hideAllOverlays (part_002:281-286)
hideAllOverlays(s) ==
    [s EXCEPT !.ui.videoOverlay = FALSE, !.ui.captureOverlay = FALSE,
              !.ui.documentIndicator = FALSE, !.ui.captureStatus = FALSE]

\* speechSynthesis.cancel(): every queued utterance is removed from the
\* queue.  The browser still reports the removal to the utterance (an error
\* or end event, delivered later), so the utterance stays in `utterances`,
\* marked, until that event is delivered.
cancelSpeech(s) ==
    [s EXCEPT !.utterances =
        [i \in 1..Len(s.utterances) |-> [s.utterances[i] EXCEPT !.cancelled = TRUE]]]

\* Fault variant of speakText: the speechSynthesis.cancel() call is missing.
speakText_noCancel(s, u) ==
    [s EXCEPT !.utterances = Append(@, u)]

\* speakText (part_002:362-387): cancel, then speak a new utterance whose
\* onend and onerror both run the callback u describes.
speakText(s, u) ==
    LET c == cancelSpeech(s)
    IN  [c EXCEPT !.utterances = Append(@, u)]

\* saveCapturedImages (part_002:426-446): the request body is built from
\* capturedImages when the function is called.
saveCapturedImages(s) ==
    [s EXCEPT !.saved = Append(@, s.capturedImages),
              !.requests.captures = @ + 1]

\* how a POST ends: success true, success false, or fetch / json() rejects
Outcomes == {"success", "failure", "rejected"}

\* Fault variant: a failed save of the images is sent again.
capturesResponse_retry(s, outcome) ==
    LET a == [s EXCEPT !.requests.captures = @ - 1]
    IN  IF outcome = "success" THEN a ELSE saveCapturedImages(a)

\* saveCapturedImages after its awaits (part_002:439-445): the outcome is
\* logged.
capturesResponse(s, outcome) == [s EXCEPT !.requests.captures = @ - 1]

\* saveMetadata up to its await (part_002:545-577)
saveMetadata(s) ==
    [s EXCEPT !.requests.metadata = @ + 1, !.requests.submitted = @ + 1]

\* saveMetadata after its awaits (part_002:579-590): every outcome ends in
\* an alert.
metadataResponse(s, outcome) == [s EXCEPT !.requests.metadata = @ - 1]

\* Fault variant of stopRecording: the isRecording test is missing.
stopRecording_noGuard(s) ==
    IF s.mediaRecorder # 0
    THEN LET a == cancelSpeech([s EXCEPT !.isAutoPlaying = FALSE])
             b == [a EXCEPT !.recorders[s.mediaRecorder].state = "stopping",
                            !.recorders[s.mediaRecorder].stops = @ + 1,
                            !.isRecording = FALSE,
                            !.timerInterval = FALSE,
                            !.progress = [i \in 1..NumBars |-> FullWidth],
                            !.ui.stopBtnDisabled = TRUE]
             c == hideAllOverlays(b)
         IN  IF Len(c.capturedImages) > 0 THEN saveCapturedImages(c) ELSE c
    ELSE s

\* Fault variant of stopRecording: it resets the cursor for a next recording.
stopRecording_resetCursor(s) ==
    IF s.mediaRecorder # 0 /\ s.isRecording
    THEN LET a == cancelSpeech([s EXCEPT !.isAutoPlaying = FALSE])
             b == [a EXCEPT !.recorders[s.mediaRecorder].state = "stopping",
                            !.recorders[s.mediaRecorder].stops = @ + 1,
                            !.isRecording = FALSE,
                            !.timerInterval = FALSE,
                            !.progress = [i \in 1..NumBars |-> FullWidth],
                            !.ui.stopBtnDisabled = TRUE,
                            !.currentSectionIndex = 0,
                            !.currentLineIndex = 0]
             c == hideAllOverlays(b)
         IN  IF Len(c.capturedImages) > 0 THEN saveCapturedImages(c) ELSE c
    ELSE s

\* Fault variant of stopRecording: it enables Start again, as the
\* simplified recorder does.
stopRecording_enableStart(s) ==
    IF s.mediaRecorder # 0 /\ s.isRecording
    THEN LET a == cancelSpeech([s EXCEPT !.isAutoPlaying = FALSE])
             b == [a EXCEPT !.recorders[s.mediaRecorder].state = "stopping",
                            !.recorders[s.mediaRecorder].stops = @ + 1,
                            !.isRecording = FALSE,
                            !.timerInterval = FALSE,
                            !.progress = [i \in 1..NumBars |-> FullWidth],
                            !.ui.stopBtnDisabled = TRUE,
                            !.ui.startBtnDisabled = FALSE]
             c == hideAllOverlays(b)
         IN  IF Len(c.capturedImages) > 0 THEN saveCapturedImages(c) ELSE c
    ELSE s

\* Fault variant of stopRecording: the images are posted even when there
\* are none.
stopRecording_alwaysSave(s) ==
    IF s.mediaRecorder # 0 /\ s.isRecording
    THEN LET a == cancelSpeech([s EXCEPT !.isAutoPlaying = FALSE])
             b == [a EXCEPT !.recorders[s.mediaRecorder].state = "stopping",
                            !.recorders[s.mediaRecorder].stops = @ + 1,
                            !.isRecording = FALSE,
                            !.timerInterval = FALSE,
                            !.progress = [i \in 1..NumBars |-> FullWidth],
                            !.ui.stopBtnDisabled = TRUE]
         IN  saveCapturedImages(hideAllOverlays(b))
    ELSE s

\* Fault variant of stopRecording: isAutoPlaying is left set.
stopRecording_keepPlaying(s) ==
    IF s.mediaRecorder # 0 /\ s.isRecording
    THEN LET a == cancelSpeech(s)
             b == [a EXCEPT !.recorders[s.mediaRecorder].state = "stopping",
                            !.recorders[s.mediaRecorder].stops = @ + 1,
                            !.isRecording = FALSE,
                            !.timerInterval = FALSE,
                            !.progress = [i \in 1..NumBars |-> FullWidth],
                            !.ui.stopBtnDisabled = TRUE]
             c == hideAllOverlays(b)
         IN  IF Len(c.capturedImages) > 0 THEN saveCapturedImages(c) ELSE c
    ELSE s

\* stopRecording (part_002:390-423)
stopRecording(s) ==
    IF s.mediaRecorder # 0 /\ s.isRecording
    THEN LET a == cancelSpeech([s EXCEPT !.isAutoPlaying = FALSE])
             b == [a EXCEPT !.recorders[s.mediaRecorder].state = "stopping",
                            !.recorders[s.mediaRecorder].stops = @ + 1,
                            !.isRecording = FALSE,
                            !.timerInterval = FALSE,
                            !.progress = [i \in 1..NumBars |-> FullWidth],
                            !.ui.stopBtnDisabled = TRUE]
             c == hideAllOverlays(b)
         IN  IF Len(c.capturedImages) > 0 THEN saveCapturedImages(c) ELSE c
    ELSE s

\* collectGroupedLines (part_002:161-179): the indices collected from idx on
\* collectGroupedLines whose loop advances without testing group_with_next
RECURSIVE collectFrom_noBreak(_, _)
collectFrom_noBreak(lines, idx) ==
    IF idx < Len(lines)
    THEN << idx >> \o collectFrom_noBreak(lines, idx + 1)
    ELSE << >>

\* collectGroupedLines whose loop condition is idx <= length
RECURSIVE collectFrom_pastEnd(_, _)
collectFrom_pastEnd(lines, idx) ==
    IF idx <= Len(lines)
    THEN IF idx < Len(lines) /\ lines[idx + 1].group_with_next
         THEN << idx >> \o collectFrom_pastEnd(lines, idx + 1)
         ELSE << idx >>
    ELSE << >>

RECURSIVE collectFrom(_, _)
collectFrom(lines, idx) ==
    IF idx < Len(lines)
    THEN IF lines[idx + 1].group_with_next
         THEN << idx >> \o collectFrom(lines, idx + 1)
         ELSE << idx >>
    ELSE << >>

collectGroupedLines(s) ==
    collectFrom(s.scriptData.sections[s.currentSectionIndex + 1].script_lines,
                s.currentLineIndex)

\* part_002:224-237: the loop over the group; the last line that names a
\* document decides documentType and currentCaptureType.
RECURSIVE documentTypeOf(_, _, _)
documentTypeOf(lines, group, type) ==
    IF group = << >> THEN type
    ELSE LET a == lines[Head(group) + 1].action_required
             t == IF a = "customer_shows_pan" THEN "pan"
                  ELSE IF a = "customer_shows_aadhaar" THEN "aadhaar"
                  ELSE type
         IN  documentTypeOf(lines, Tail(group), t)

\* speaking a group with capture mode taken from any line of the group
speakGroup_anyLineCapture(s) ==
    LET section       == s.scriptData.sections[s.currentSectionIndex + 1]
        groupedLines  == collectGroupedLines(s)
        lastLineIndex == groupedLines[Len(groupedLines)]
        lastLine      == section.script_lines[lastLineIndex + 1]
        documentType  == documentTypeOf(section.script_lines, groupedLines, "null")
        a == hideAllOverlays(updateProgressBars(s))
        b == [a EXCEPT !.currentCaptureType =
                          IF documentType = "null" THEN @ ELSE documentType,
                       !.spoken = @ \o [i \in 1..Len(groupedLines) |->
                                          << s.currentSectionIndex, groupedLines[i] >>]]
    IN  speakText(b,
            [ sec |-> s.currentSectionIndex, first |-> s.currentLineIndex,
              lastLineIndex |-> lastLineIndex,
              isAutoTerminate |-> section.auto_terminate \/ lastLine.auto_terminate,
              isCaptureMode |-> \E i \in 1..Len(groupedLines) :
                                   section.script_lines[groupedLines[i] + 1].capture_mode,
              showDocument |-> documentType # "null",
              cancelled |-> FALSE ])

\* part_002:207-277: the cursor is on a line; speak its group.
speakGroup(s) ==
    LET section       == s.scriptData.sections[s.currentSectionIndex + 1]
        groupedLines  == collectGroupedLines(s)
        lastLineIndex == groupedLines[Len(groupedLines)]
        lastLine      == section.script_lines[lastLineIndex + 1]
        documentType  == documentTypeOf(section.script_lines, groupedLines, "null")
        a == hideAllOverlays(updateProgressBars(s))
        b == [a EXCEPT !.currentCaptureType =
                          IF documentType = "null" THEN @ ELSE documentType,
                       !.spoken = @ \o [i \in 1..Len(groupedLines) |->
                                          << s.currentSectionIndex, groupedLines[i] >>]]
    IN  speakText(b,
            [ sec |-> s.currentSectionIndex, first |-> s.currentLineIndex,
              lastLineIndex |-> lastLineIndex,
              isAutoTerminate |-> section.auto_terminate \/ lastLine.auto_terminate,
              isCaptureMode |-> lastLine.capture_mode,
              showDocument |-> documentType # "null",
              cancelled |-> FALSE ])

\* Fault variant of the end of the script: stopRecording is not called.
scriptExhausted_noStop(s) ==
    hideAllOverlays([s EXCEPT !.isAutoPlaying = FALSE])

\* part_002:193-200: all sections complete
scriptExhausted(s) ==
    stopRecording(hideAllOverlays([s EXCEPT !.isAutoPlaying = FALSE]))

\* playNextLine that keeps the line index when it moves to the next section
RECURSIVE playNextLine_keepLineIndex(_)
playNextLine_keepLineIndex(s) ==
    IF ScriptIsNull(s) \/ ~s.isAutoPlaying THEN s
    ELSE IF s.scriptData.kind = "malformed" THEN s
    ELSE IF s.currentSectionIndex >= Len(s.scriptData.sections) THEN s
    ELSE IF s.currentLineIndex >=
              Len(s.scriptData.sections[s.currentSectionIndex + 1].script_lines)
    THEN LET n == [s EXCEPT !.currentSectionIndex = @ + 1]
         IN  IF n.currentSectionIndex >= Len(n.scriptData.sections)
             THEN scriptExhausted(n)
             ELSE playNextLine_keepLineIndex(n)
    ELSE speakGroup(s)

\* playNextLine (part_002:182-278).  A TypeError (sections missing, or no
\* section at the index) leaves the state as it is at the throw.
RECURSIVE playNextLine(_)
playNextLine(s) ==
    IF ScriptIsNull(s) \/ ~s.isAutoPlaying THEN s
    ELSE IF s.scriptData.kind = "malformed" THEN s
    ELSE IF s.currentSectionIndex >= Len(s.scriptData.sections) THEN s
    ELSE IF s.currentLineIndex >=
              Len(s.scriptData.sections[s.currentSectionIndex + 1].script_lines)
    THEN LET n == [s EXCEPT !.currentSectionIndex = @ + 1, !.currentLineIndex = 0]
         IN  IF n.currentSectionIndex >= Len(n.scriptData.sections)
             THEN scriptExhausted(n)
             ELSE playNextLine(n)
    ELSE speakGroup(s)

\* Fault variant of the callback: the cursor is not moved to the anchor
\* line of the group before the branch.
onComplete_noAdvance(s, u) ==
    IF u.isAutoTerminate
    THEN playNextLine([s EXCEPT !.currentLineIndex = @ + 1])
    ELSE IF u.isCaptureMode
    THEN [s EXCEPT !.ui.documentIndicator =
                       IF u.showDocument THEN TRUE ELSE @,
                   !.ui.captureOverlay = TRUE,
                   !.ui.captureBtn = TRUE,
                   !.ui.retakeBtn = FALSE,
                   !.ui.captureNextBtn = FALSE,
                   !.ui.captureStatus = FALSE]
    ELSE [s EXCEPT !.ui.videoOverlay = TRUE]

\* callback that moves the cursor past the anchor before it waits
onComplete_advanceFirst(s, u) ==
    LET a == [s EXCEPT !.currentLineIndex = u.lastLineIndex + 1]
    IN  IF u.isAutoTerminate
        THEN playNextLine(a)
        ELSE IF u.isCaptureMode
        THEN [a EXCEPT !.ui.documentIndicator =
                           IF u.showDocument THEN TRUE ELSE @,
                       !.ui.captureOverlay = TRUE,
                       !.ui.captureBtn = TRUE,
                       !.ui.retakeBtn = FALSE,
                       !.ui.captureNextBtn = FALSE,
                       !.ui.captureStatus = FALSE]
        ELSE [a EXCEPT !.ui.videoOverlay = TRUE]

\* the callback passed to speakText (part_002:252-277)
onComplete(s, u) ==
    LET a == [s EXCEPT !.currentLineIndex = u.lastLineIndex]
    IN  IF u.isAutoTerminate
        THEN playNextLine([a EXCEPT !.currentLineIndex = @ + 1])
        ELSE IF u.isCaptureMode
        THEN [a EXCEPT !.ui.documentIndicator =
                           IF u.showDocument THEN TRUE ELSE @,
                       !.ui.captureOverlay = TRUE,
                       !.ui.captureBtn = TRUE,
                       !.ui.retakeBtn = FALSE,
                       !.ui.captureNextBtn = FALSE,
                       !.ui.captureStatus = FALSE]
        ELSE [a EXCEPT !.ui.videoOverlay = TRUE]

\* onerror that logs the error and does not run the callback
onerror_logOnly(s, u) == s

\* currentUtterance.onend / onerror (part_002:377-384)
onend(s, u) == onComplete(s, u)
onerror(s, u) == onComplete(s, u)

\* Fault variant of startRecording: the playback is started although
\* mediaRecorder.start() threw.
startRecording_playAnyway(s, fail) ==
    IF s.stream # "live" THEN s
    ELSE LET a == [s EXCEPT !.recordedChunks = << >>, !.capturedImages = << >>,
                            !.confirmed = { }]
             id == Len(s.recorders) + 1
             b == [a EXCEPT !.recorders =
                               Append(@, [state |-> "inactive", stops |-> 0,
                                          page |-> "assistant"]),
                            !.mediaRecorder = id]
             c == [b EXCEPT !.recorders[id].state = "recording",
                            !.isRecording = TRUE,
                            !.ui.startBtnDisabled = TRUE,
                            !.ui.stopBtnDisabled = FALSE,
                            !.timerInterval = TRUE,
                            !.isAutoPlaying = TRUE,
                            !.currentSectionIndex = 0,
                            !.currentLineIndex = 0,
                            !.spoken = << >>]
         IN  IF fail = "ctor" THEN a
             ELSE IF fail = "start"
             THEN playNextLine([b EXCEPT !.isAutoPlaying = TRUE])
             ELSE playNextLine(c)

\* startRecording (part_002:96-158).  fail says where the try block throws:
\* "ctor" in new MediaRecorder, "start" in mediaRecorder.start(), "none".
startRecording(s, fail) ==
    IF s.stream # "live" THEN s
    ELSE LET a == [s EXCEPT !.recordedChunks = << >>, !.capturedImages = << >>,
                            !.confirmed = { }]
             id == Len(s.recorders) + 1
             b == [a EXCEPT !.recorders =
                               Append(@, [state |-> "inactive", stops |-> 0,
                                          page |-> "assistant"]),
                            !.mediaRecorder = id]
             c == [b EXCEPT !.recorders[id].state = "recording",
                            !.isRecording = TRUE,
                            !.ui.startBtnDisabled = TRUE,
                            !.ui.stopBtnDisabled = FALSE,
                            !.timerInterval = TRUE,
                            !.isAutoPlaying = TRUE,
                            !.currentSectionIndex = 0,
                            !.currentLineIndex = 0,
                            !.spoken = << >>]
         IN  IF fail = "ctor" THEN a
             ELSE IF fail = "start" THEN b
             ELSE playNextLine(c)

\* handleNextQuestion (part_002:289-298)
handleNextQuestion(s) ==
    IF ~s.isAutoPlaying THEN s
    ELSE LET a == hideAllOverlays(s)
         IN  playNextLine([a EXCEPT !.currentLineIndex = @ + 1])

\* captureImage (part_002:301-330)
captureImage(s) ==
    [s EXCEPT !.capturedImages =
                  Append(@, [type |-> s.currentCaptureType, timestamp |-> s.clock + 1]),
              !.clock = @ + 1,
              !.ui.captureStatus = TRUE,
              !.ui.captureBtn = FALSE,
              !.ui.retakeBtn = TRUE,
              !.ui.captureNextBtn = TRUE]

\* Array.prototype.findIndex: the first index (1-based here) whose image
\* has the type, 0 when there is none
findIndex(images, type) ==
    IF \E i \in 1..Len(images) : images[i].type = type
    THEN CHOOSE i \in 1..Len(images) :
            /\ images[i].type = type
            /\ \A j \in 1..(i - 1) : images[j].type # type
    ELSE 0

\* splice(i, 1)
spliceOne(q, i) == SubSeq(q, 1, i - 1) \o SubSeq(q, i + 1, Len(q))

\* retakeImage that leaves the capture-Next button displayed
retakeImage_keepNext(s) ==
    LET lastIndex == findIndex(s.capturedImages, s.currentCaptureType)
        a == IF lastIndex # 0
             THEN [s EXCEPT !.capturedImages = spliceOne(@, lastIndex)]
             ELSE s
    IN  [a EXCEPT !.ui.captureStatus = FALSE,
                  !.ui.captureBtn = TRUE,
                  !.ui.retakeBtn = FALSE]

\* retakeImage (part_002:333-347)
retakeImage(s) ==
    LET lastIndex == findIndex(s.capturedImages, s.currentCaptureType)
        a == IF lastIndex # 0
             THEN [s EXCEPT !.capturedImages = spliceOne(@, lastIndex)]
             ELSE s
    IN  [a EXCEPT !.ui.captureStatus = FALSE,
                  !.ui.captureBtn = TRUE,
                  !.ui.retakeBtn = FALSE,
                  !.ui.captureNextBtn = FALSE]

\* handleCaptureNext that also empties the image list when it advances
handleCaptureNext_clearImages(s) ==
    IF ~s.isAutoPlaying THEN s
    ELSE LET a == hideAllOverlays([s EXCEPT !.capturedImages = << >>])
         IN  playNextLine([a EXCEPT !.currentLineIndex = @ + 1])

\* handleCaptureNext (part_002:350-359)
handleCaptureNext(s) ==
    IF ~s.isAutoPlaying THEN s
    ELSE LET a == hideAllOverlays(
                      [s EXCEPT !.confirmed =
                          @ \cup {s.capturedImages[i] : i \in 1..Len(s.capturedImages)}])
         IN  playNextLine([a EXCEPT !.currentLineIndex = @ + 1])

\* mediaRecorder.ondataavailable (part_002:111-115)
ondataavailable(s, r, size) ==
    LET a == [s EXCEPT !.delivered = @ + 1]
    IN  IF size > 0
        THEN [a EXCEPT !.recordedChunks =
                          Append(@, [recorder |-> r, n |-> s.delivered + 1])]
        ELSE a

\* mediaRecorder.onstop (part_002:117-130)
onstop(s) ==
    [s EXCEPT !.videoBlob = [isNull |-> FALSE, parts |-> s.recordedChunks],
              !.ui.downloadBtnDisabled = FALSE,
              !.ui.metadataForm = TRUE]


\* Fault variant of downloadVideo: the blob is dropped after the download,
\* as the simplified recorder does.
downloadVideo_reset(s) ==
    IF s.videoBlob.isNull THEN s
    ELSE [s EXCEPT !.ui.videoFilename = TRUE, !.videoBlob = NullBlob]

\* downloadVideo (part_002:449-476): an object URL of videoBlob is clicked
\* and the file name is written into the metadata form.
downloadVideo(s) ==
    IF s.videoBlob.isNull THEN s
    ELSE [s EXCEPT !.ui.videoFilename = TRUE]

----------------------------------------------------------------------------
(* static/js/recording_assistant.js: the simplified recorder *)

\* startRecording (recording_assistant.js:72-124)
simple_startRecording(s, fail) ==
    IF s.stream # "live" THEN s
    ELSE LET a == [s EXCEPT !.recordedChunks = << >>]
             id == Len(s.recorders) + 1
             b == [a EXCEPT !.recorders =
                               Append(@, [state |-> "inactive", stops |-> 0,
                                          page |-> "recorder"]),
                            !.mediaRecorder = id]
             c == [b EXCEPT !.recorders[id].state = "recording",
                            !.isRecording = TRUE,
                            !.ui.startBtnShown = FALSE,
                            !.ui.stopBtnShown = TRUE,
                            !.seconds = 0,
                            !.timerInterval = TRUE]
         IN  IF fail = "ctor" THEN a
             ELSE IF fail = "start" THEN b
             ELSE c

\* stopRecording (recording_assistant.js:127-143)
simple_stopRecording(s) ==
    IF s.mediaRecorder # 0 /\ s.isRecording
    THEN [s EXCEPT !.recorders[s.mediaRecorder].state = "stopping",
                   !.recorders[s.mediaRecorder].stops = @ + 1,
                   !.isRecording = FALSE,
                   !.timerInterval = FALSE,
                   !.ui.startBtnShown = TRUE,
                   !.ui.stopBtnShown = FALSE]
    ELSE s

\* convertAndDownload up to its await (recording_assistant.js:146-169)
convertAndDownload(s) ==
    IF s.videoBlob.isNull THEN s
    ELSE [s EXCEPT !.ui.stopBtnDisabled = TRUE,
                   !.conversions = Append(@, s.videoBlob)]

\* mediaRecorder.onstop (recording_assistant.js:97-103)
simple_onstop(s) ==
    convertAndDownload(
        [s EXCEPT !.videoBlob = [isNull |-> FALSE, parts |-> s.recordedChunks]])

\* downloadAsWebM (recording_assistant.js:212-243)
downloadAsWebM(s) ==
    IF s.videoBlob.isNull THEN s
    ELSE [s EXCEPT !.videoBlob = NullBlob,
                   !.recordedChunks = << >>,
                   !.seconds = 0,
                   !.ui.stopBtnDisabled = FALSE]

\* convertAndDownload after its await (recording_assistant.js:171-208):
\* ok is whether the server converted the upload.
convertResponse(s, ok) ==
    LET a == [s EXCEPT !.conversions = Tail(@)]
    IN  IF ok
        THEN [a EXCEPT !.ui.stopBtnDisabled = FALSE,
                       !.videoBlob = NullBlob,
                       !.recordedChunks = << >>,
                       !.seconds = 0]
        ELSE downloadAsWebM(a)

----------------------------------------------------------------------------
(* Actions: one per event the page can receive *)

Fails == {"none", "ctor", "start"}

\* initializeWebcam (part_002:50-68, recording_assistant.js:34-55):
\* getUserMedia resolves with a stream or rejects.
InitializeWebcam ==
    /\ stream = "pending"
    /\ \E r \in {"live", "denied"} : Becomes([Cur EXCEPT !.stream = r])

\* loadScript (part_002:71-79): the fetch resolves with a document or fails.
LoadScript ==
    /\ page = "assistant"
    /\ scriptData.kind = "pending"
    /\ \/ \E d \in Documents : Becomes([Cur EXCEPT !.scriptData = d])
       \/ Becomes([Cur EXCEPT !.scriptData = [kind |-> "failed", sections |-> << >>]])

\* A click reaches a handler only when its button is displayed and enabled;
\* the Next button is in video-overlay and the capture buttons are in
\* capture-overlay (part_002:261-276).
ClickStart ==
    /\ page = "assistant"
    /\ ~ui.startBtnDisabled
    /\ Len(recorders) < MaxRecorders
    /\ \E fail \in Fails : Becomes(startRecording(Cur, fail))

ClickStop ==
    /\ page = "assistant"
    /\ ~ui.stopBtnDisabled
    /\ Becomes(stopRecording(Cur))

ClickNext ==
    /\ page = "assistant"
    /\ ui.videoOverlay
    /\ Becomes(handleNextQuestion(Cur))

ClickCapture ==
    /\ page = "assistant"
    /\ ui.captureOverlay /\ ui.captureBtn
    /\ clock < MaxCaptures
    /\ Becomes(captureImage(Cur))

ClickRetake ==
    /\ page = "assistant"
    /\ ui.captureOverlay /\ ui.retakeBtn
    /\ Becomes(retakeImage(Cur))

ClickCaptureNext ==
    /\ page = "assistant"
    /\ ui.captureOverlay /\ ui.captureNextBtn
    /\ Becomes(handleCaptureNext(Cur))

ClickDownload ==
    /\ page = "assistant"
    /\ ~ui.downloadBtnDisabled
    /\ Becomes(downloadVideo(Cur))

\* submit of metadata-form-element
SubmitMetadata ==
    /\ page = "assistant"
    /\ ui.metadataForm
    /\ requests.submitted < MaxSubmits
    /\ Becomes(saveMetadata(Cur))

\* The answer to a POST of the captured images arrives, or the POST fails.
CapturesResponse ==
    /\ requests.captures > 0
    /\ \E outcome \in Outcomes : Becomes(capturesResponse(Cur, outcome))

\* The answer to a POST of the metadata arrives, or the POST fails.
MetadataResponse ==
    /\ requests.metadata > 0
    /\ \E outcome \in Outcomes : Becomes(metadataResponse(Cur, outcome))

\* The end or error event of an utterance: of the one being spoken, or of
\* one that cancel() removed.
SpeechEvent ==
    \E i \in 1..Len(utterances) :
        LET u == utterances[i]
            a == [Cur EXCEPT !.utterances = spliceOne(@, i)]
        IN  \/ Becomes(onend(a, u))
            \/ Becomes(onerror(a, u))

\* The interval set by startRecording fires.
TimerTick ==
    /\ timerInterval
    /\ seconds < MaxSeconds
    /\ Becomes(IF page = "assistant" THEN updateTimer(Cur)
               ELSE simple_updateTimer(Cur))

\* The task a stop() queued runs: it fires dataavailable with the data
\* gathered and then stop.  The recorders are started with start() and no
\* timeslice and requestData() is never called, so this is the only
\* dataavailable event of a recorder; size 0 is a recording without data.
RecorderStopped ==
    \E r \in 1..Len(recorders) :
        /\ recorders[r].state = "stopping"
        /\ \E size \in {0, 1} :
              LET a == ondataavailable(
                           [Cur EXCEPT !.recorders[r].state = "inactive"], r, size)
              IN  IF recorders[r].page = "assistant"
                  THEN Becomes(onstop(a))
                  ELSE Becomes(simple_onstop(a))

SimpleClickStart ==
    /\ page = "recorder"
    /\ ui.startBtnShown
    /\ Len(recorders) < MaxRecorders
    /\ \E fail \in Fails : Becomes(simple_startRecording(Cur, fail))

SimpleClickStop ==
    /\ page = "recorder"
    /\ ui.stopBtnShown /\ ~ui.stopBtnDisabled
    /\ Becomes(simple_stopRecording(Cur))

ConvertResponse ==
    /\ conversions # << >>
    /\ \E ok \in BOOLEAN : Becomes(convertResponse(Cur, ok))

Next ==
    \/ InitializeWebcam
    \/ LoadScript
    \/ ClickStart
    \/ ClickStop
    \/ ClickNext
    \/ ClickCapture
    \/ ClickRetake
    \/ ClickCaptureNext
    \/ ClickDownload
    \/ SpeechEvent
    \/ TimerTick
    \/ RecorderStopped
    \/ SimpleClickStart
    \/ SimpleClickStop
    \/ ConvertResponse

Spec == Init /\ [][Next]_vars

\* Persistence.  saveMetadata and the continuations of the two POSTs write
\* nothing but `requests`, so they are explored in a specification of their
\* own: the scripted assistant with every one of its events, on the scripts
\* made of a capture step and a plain line.
PersistCatalogue ==
    { Section(FALSE, << CapturePan >>), Section(FALSE, << Plain >>) }

PersistDocuments ==
    { [kind |-> "script", sections |-> sc] :
          sc \in SeqsUpTo(PersistCatalogue, MaxSections) }

LoadPersistScript ==
    /\ page = "assistant"
    /\ scriptData.kind = "pending"
    /\ \/ \E d \in PersistDocuments : Becomes([Cur EXCEPT !.scriptData = d])
       \/ Becomes([Cur EXCEPT !.scriptData = [kind |-> "failed", sections |-> << >>]])

InitPersist == Init /\ page = "assistant"

NextPersist ==
    \/ InitializeWebcam
    \/ LoadPersistScript
    \/ ClickStart
    \/ ClickStop
    \/ ClickNext
    \/ ClickCapture
    \/ ClickRetake
    \/ ClickCaptureNext
    \/ ClickDownload
    \/ SubmitMetadata
    \/ CapturesResponse
    \/ MetadataResponse
    \/ SpeechEvent
    \/ TimerTick
    \/ RecorderStopped

SpecPersist == InitPersist /\ [][NextPersist]_vars


----------------------------------------------------------------------------
(* The session states of the assistant, read off the program state *)

\* mediaRecorder.start() succeeded on this recorder
Started(r) == r.state \in {"recording", "stopping"} \/ r.stops > 0

\* startRecording got past mediaRecorder.start()
SessionBegun == mediaRecorder # 0 /\ Started(recorders[mediaRecorder])

\* the session is over: script exhausted, auto-terminate reached or Stop
Terminated == SessionBegun /\ ~isAutoPlaying

\* the cursor ran off the end of the script
Exhausted ==
    /\ scriptData.kind = "script"
    /\ scriptData.sections # << >>
    /\ currentSectionIndex >= Len(scriptData.sections)

ScriptLine(p) == scriptData.sections[p[1] + 1].script_lines[p[2] + 1]

\* p is the anchor of its unit: the last line of a group
IsAnchor(p) ==
    \/ ~ScriptLine(p).group_with_next
    \/ p[2] + 1 = Len(scriptData.sections[p[1] + 1].script_lines)

\* every line of the script, in script order
RECURSIVE LinesFrom(_, _)
LinesFrom(sections, i) ==
    IF i > Len(sections) THEN << >>
    ELSE [j \in 1..Len(sections[i].script_lines) |-> << i - 1, j - 1 >>]
            \o LinesFrom(sections, i + 1)

AllLines == LinesFrom(scriptData.sections, 1)

NoAutoTerminate ==
    \A i \in 1..Len(scriptData.sections) :
        /\ ~scriptData.sections[i].auto_terminate
        /\ \A j \in 1..Len(scriptData.sections[i].script_lines) :
              ~scriptData.sections[i].script_lines[j].auto_terminate

IsPrefix(p, q) == Len(p) <= Len(q) /\ p = SubSeq(q, 1, Len(p))

\* utterances being spoken: handed to speechSynthesis and not cancelled
InFlight(s) ==
    Cardinality({i \in 1..Len(s.utterances) : ~s.utterances[i].cancelled})

LexLeq(s1, l1, s2, l2) == s1 < s2 \/ (s1 = s2 /\ l1 <= l2)

----------------------------------------------------------------------------
(* Claims *)

\* C1: in a session of the assistant mediaRecorder.stop() is invoked at most
\* once on each recorder, and exactly once on the session's recorder in every
\* state where the session has terminated, also when the section and its
\* last line both carry auto_terminate.
C1_StopExactlyOnce ==
    page = "assistant" =>
        /\ \A r \in 1..Len(recorders) : recorders[r].stops <= 1
        /\ Terminated => recorders[mediaRecorder].stops = 1

\* a session ended by the callback of a unit whose section and anchor line
\* both carry auto_terminate
C1_Witness ==
    /\ page = "assistant"
    /\ Terminated
    /\ Exhausted
    /\ scriptData.sections[Len(scriptData.sections)] = Section(TRUE, << LastLine >>)
    /\ recorders[mediaRecorder].stops = 1

\* C2 (as claimed): once a unit whose anchor line has auto_terminate has
\* been narrated, no further line is spoken, and when its narration has
\* completed the recorder is stopped.
C2_AutoTerminateShortCircuit ==
    (page = "assistant" /\ scriptData.kind = "script") =>
        /\ \A i \in 1..Len(spoken) :
              (IsAnchor(spoken[i]) /\ ScriptLine(spoken[i]).auto_terminate)
                  => i = Len(spoken)
        /\ ( /\ spoken # << >>
             /\ IsAnchor(spoken[Len(spoken)])
             /\ ScriptLine(spoken[Len(spoken)]).auto_terminate
             /\ utterances = << >> ) => Terminated

\* C3: the cursor never moves backwards in lexicographic order and the
\* section index never decreases, on any step of the assistant.
C3_CursorMonotone ==
    [][ page = "assistant" =>
            /\ LexLeq(currentSectionIndex, currentLineIndex,
                      currentSectionIndex', currentLineIndex')
            /\ currentSectionIndex <= currentSectionIndex' ]_vars

\* the callback of a cancelled utterance ran after Stop, in a later section:
\* the Next overlay is up although the session is over
C3_Witness ==
    /\ page = "assistant"
    /\ Terminated
    /\ ui.videoOverlay
    /\ currentSectionIndex >= 1
    /\ currentLineIndex >= 1

\* C4: with no auto_terminate flag in the script, the lines spoken are at
\* every moment a prefix of the script's lines in script order, and when the
\* session has ended by exhausting the script they are all of them.
C4_TotalTraversal ==
    (page = "assistant" /\ scriptData.kind = "script" /\ NoAutoTerminate
        /\ SessionBegun) =>
        /\ IsPrefix(spoken, AllLines)
        /\ (Terminated /\ Exhausted) => spoken = AllLines

\* a two-section script with a group and a capture step, run to its end
C4_Witness ==
    /\ page = "assistant"
    /\ scriptData.kind = "script"
    /\ NoAutoTerminate
    /\ Terminated /\ Exhausted
    /\ scriptData.sections =
          << Section(FALSE, << Grouped, Plain, Plain >>),
             Section(FALSE, << GroupedAadhaar, CaptureBare >>) >>
    /\ Len(spoken) = 5

\* C5 (as claimed): after the session has terminated, the delivery of a
\* pending speech event changes neither the cursor nor the overlays and
\* starts no narration.
C5_LateCallbackIgnored ==
    [][ ( /\ page = "assistant"
          /\ Terminated
          /\ Len(utterances') < Len(utterances) ) =>
            /\ currentSectionIndex' = currentSectionIndex
            /\ currentLineIndex' = currentLineIndex
            /\ ui' = ui
            /\ InFlight(Cur') = 0 ]_vars

\* C6: at most one utterance is being spoken at any time, and each handler
\* that starts the next unit leaves at most one being spoken whenever it is
\* invoked.
C6_NarrationSequential ==
    page = "assistant" =>
        /\ InFlight(Cur) <= 1
        /\ InFlight(handleNextQuestion(Cur)) <= 1
        /\ InFlight(handleCaptureNext(Cur)) <= 1

\* the second unit of a section is being spoken after the first completed
C6_Witness ==
    /\ page = "assistant"
    /\ InFlight(Cur) = 1
    /\ Len(utterances) = 1
    /\ utterances[1].first >= 1
    /\ Len(spoken) >= 2

\* C7 (as claimed): with no usable script (the fetch failed, or the
\* document has no sections) no recorder is ever started.
C7_NoRecordingWithoutScript ==
    (page = "assistant" /\ scriptData.kind \in {"failed", "malformed"}) =>
        /\ ~isRecording
        /\ \A r \in 1..Len(recorders) : ~Started(recorders[r])

\* C8: stopRecording invoked while not recording returns the state it was
\* given (on both pages); a recorder is stopped at most once and the
\* captured images are submitted at most once.
C8_StopIdempotent ==
    /\ (page = "assistant" /\ ~isRecording) => stopRecording(Cur) = Cur
    /\ (page = "recorder" /\ ~isRecording) => simple_stopRecording(Cur) = Cur
    /\ \A r \in 1..Len(recorders) : recorders[r].stops <= 1
    /\ Len(saved) <= 1

\* the recorder was stopped by the end of the script, with images submitted
C8_Witness ==
    /\ page = "assistant"
    /\ Terminated /\ Exhausted
    /\ ~isRecording
    /\ recorders[mediaRecorder].stops = 1
    /\ Len(saved) = 1

\* a recorder that has been stopped
HasStopped == mediaRecorder # 0 /\ recorders[mediaRecorder].stops > 0

\* C9 (as claimed): once the recorder has been stopped, no step returns
\* the page to recording.
C9_OneWayLifecycle ==
    [][ (HasStopped /\ ~isRecording) => ~isRecording' ]_vars

\* C9 (amended): on the assistant page a terminated session stays
\* terminated and never records again; on either page a recorder object
\* that was stopped never records again.
C9_AssistantOneWay ==
    [][ /\ (page = "assistant" /\ Terminated) => (Terminated' /\ ~isRecording')
        /\ \A r \in 1..Len(recorders) :
              recorders[r].stops > 0 =>
                  /\ recorders'[r].state # "recording"
                  /\ recorders'[r].stops = recorders[r].stops ]_vars

\* the assistant terminated, its artifact was built, Start is still disabled
C9_Witness ==
    /\ page = "assistant"
    /\ Terminated
    /\ ~videoBlob.isNull
    /\ ui.startBtnDisabled

\* C10 (as claimed): startRecording invoked while recording leaves the
\* recorder, the chunk buffer, the captured images, the cursor and the
\* narration unchanged.
C10_StartWhileRecordingNoOp ==
    isRecording =>
        \A fail \in Fails :
            LET n == IF page = "assistant" THEN startRecording(Cur, fail)
                     ELSE simple_startRecording(Cur, fail)
            IN  /\ n.mediaRecorder = mediaRecorder
                /\ n.recorders = recorders
                /\ n.recordedChunks = recordedChunks
                /\ n.capturedImages = capturedImages
                /\ n.currentSectionIndex = currentSectionIndex
                /\ n.currentLineIndex = currentLineIndex
                /\ n.utterances = utterances

\* ----- units, as the callbacks of their narrations see them -----

SectionOf(u)  == scriptData.sections[u.sec + 1]
AnchorOf(u)   == SectionOf(u).script_lines[u.lastLineIndex + 1]
IsFinalUnit(u) == u.lastLineIndex + 1 = Len(SectionOf(u).script_lines)

\* the narration of unit u is the only one pending and this step delivers its
\* end to a running session
Completes(u) ==
    /\ page = "assistant"
    /\ isAutoPlaying
    /\ utterances = << u >>
    /\ ~u.cancelled
    /\ \/ utterances' = << >>
       \/ /\ utterances' # << >>
          /\ << utterances'[1].sec, utterances'[1].first >> # << u.sec, u.first >>

Waiting(v) == v.videoOverlay \/ v.captureOverlay

\* C11: when the narration of a unit that is not the last of its section ends,
\* in a section flagged auto_terminate and with an anchor line that is not
\* flagged, the session waits for the operator (Next or capture overlay shown)
\* instead of narrating on.
C11_SectionFlagOnlyFinalUnit ==
    [][ \A u \in {utterances[i] : i \in 1..Len(utterances)} :
          ( /\ Completes(u)
            /\ SectionOf(u).auto_terminate
            /\ ~IsFinalUnit(u)
            /\ ~AnchorOf(u).auto_terminate )
          => ( utterances' = << >> /\ Waiting(ui') ) ]_vars

\* ----- image capture -----

Images == {capturedImages[i] : i \in 1..Len(capturedImages)}

\* index of the most recently captured image of a type, 0 if there is none
MostRecentOf(images, type) ==
    LET hits == {i \in 1..Len(images) : images[i].type = type}
    IN  IF hits = { } THEN 0 ELSE CHOOSE i \in hits : \A j \in hits : j <= i

RetakeOffered == page = "assistant" /\ ui.captureOverlay /\ ui.retakeBtn
CaptureOffered == page = "assistant" /\ ui.captureOverlay /\ ui.captureBtn

\* C12: a retake removes exactly the most recently captured image of the
\* active capture type and leaves every other image in place and in order.
C12_RetakeRemovesMostRecent ==
    RetakeOffered =>
        LET i == MostRecentOf(capturedImages, currentCaptureType)
        IN  /\ i # 0
            /\ retakeImage(Cur).capturedImages = spliceOne(capturedImages, i)

\* C13: a capture followed by a retake of the same type leaves capturedImages
\* as it was before the capture, also when an image of that type was already
\* in the list.
C13_CaptureRetakeRoundTrip ==
    CaptureOffered =>
        retakeImage(captureImage(Cur)).capturedImages = capturedImages

\* C14: an image confirmed in an earlier capture step stays in capturedImages,
\* unchanged, whatever is retaken in a later capture step.
C14_ConfirmedImagesKept ==
    page = "assistant" => confirmed \subseteq Images

EntersCaptureMode == ~ui.captureOverlay /\ ui'.captureOverlay
LeavesCaptureMode == ui.captureOverlay /\ ~ui'.captureOverlay

\* C15: showing the capture overlay and confirming with capture-Next leave
\* capturedImages unchanged; during a session the list grows only by the image
\* captureImage appends and shrinks only by the one image retakeImage removes.
C15_OnlyCaptureAddsOnlyRetakeRemoves ==
    [][ page = "assistant" =>
          /\ (EntersCaptureMode \/ LeavesCaptureMode) =>
                 capturedImages' = capturedImages
          /\ Len(capturedImages') > Len(capturedImages) =>
                 /\ CaptureOffered
                 /\ capturedImages' =
                        Append(capturedImages,
                               [type |-> currentCaptureType, timestamp |-> clock'])
          /\ Len(capturedImages') < Len(capturedImages) =>
                 /\ RetakeOffered
                 /\ \E i \in 1..Len(capturedImages) :
                        capturedImages' = spliceOne(capturedImages, i)
          /\ Len(capturedImages') = Len(capturedImages) =>
                 capturedImages' = capturedImages ]_vars

\* a second capture step is offered with the confirmed image of the first
\* still in the list
C15_Witness ==
    /\ CaptureOffered
    /\ isAutoPlaying
    /\ capturedImages # << >>
    /\ confirmed = Images

\* images captured and not confirmed by capture-Next
Pending == Images \ confirmed

\* C16: at most one captured and not yet confirmed image of each type.
C16_OnePendingPerType ==
    page = "assistant" =>
        \A x, y \in Pending : x.type = y.type => x = y

\* the captured images have been posted to /api/save-captured-images
HandedOver == saved # << >>

\* C17: once the session has terminated and its images have been handed to
\* persistence, capturedImages is not modified again.
C17_ImagesFrozenAfterTermination ==
    [][ (page = "assistant" /\ Terminated /\ HandedOver)
            => capturedImages' = capturedImages ]_vars

\* ----- grouping, exercised on every section of grouping flags -----

MaxGroupLines == 4

GroupLine(g) == Line(g, FALSE, "none", FALSE)

\* every section of 1..MaxGroupLines lines, each with or without
\* group_with_next
GroupSections ==
    UNION { { Section(FALSE, [i \in 1..m |-> GroupLine(f[i])]) :
                  f \in [1..m -> BOOLEAN] } : m \in 1..MaxGroupLines }

\* the page after loadScript, with the cursor on any line of the first section
InitGroup ==
    /\ page = "assistant"
    /\ \E first \in GroupSections :
          scriptData = [kind |-> "script",
                        sections |-> << first, Section(FALSE, << Grouped, Plain >>) >>]
    /\ stream = "live"
    /\ currentSectionIndex = 0
    /\ currentLineIndex \in 0..(Len(scriptData.sections[1].script_lines) - 1)
    /\ isRecording = FALSE
    /\ isAutoPlaying = FALSE
    /\ mediaRecorder = 0
    /\ recorders = << >>
    /\ recordedChunks = << >>
    /\ videoBlob = NullBlob
    /\ capturedImages = << >>
    /\ currentCaptureType = "null"
    /\ utterances = << >>
    /\ ui = InitialUi(page)
    /\ saved = << >>
    /\ spoken = << >>
    /\ clock = 0
    /\ delivered = 0
    /\ conversions = << >>
    /\ confirmed = { }
    /\ seconds = 0
    /\ timerInterval = FALSE
    /\ progress = InitialProgress
    /\ requests = NoRequests

CursorInSection(s) ==
    s.currentLineIndex <
        Len(s.scriptData.sections[s.currentSectionIndex + 1].script_lines)

\* playNextLine's call of collectGroupedLines (part_002:208); the lines of the
\* group are recorded in spoken
CollectGroup ==
    /\ spoken = << >>
    /\ CursorInSection(Cur)
    /\ LET groupedLines == collectGroupedLines(Cur)
       IN  Becomes([Cur EXCEPT !.spoken =
                       [i \in 1..Len(groupedLines) |->
                            << currentSectionIndex, groupedLines[i] >>]])

\* the callback's cursor moves: onto the last line of the group, then past it
AdvancePastGroup ==
    /\ spoken # << >>
    /\ Becomes([Cur EXCEPT !.currentLineIndex = spoken[Len(spoken)][2] + 1,
                           !.spoken = << >>])

NextGroup == CollectGroup \/ AdvancePastGroup

SpecGroup == InitGroup /\ [][NextGroup]_vars

CursorLines == scriptData.sections[currentSectionIndex + 1].script_lines

\* the first index from c on whose line does not group with the next, or the
\* last index of the section
GroupEnd(lines, c) ==
    LET stops == {i \in c..(Len(lines) - 1) :
                     ~lines[i + 1].group_with_next \/ i = Len(lines) - 1}
    IN  CHOOSE e \in stops : \A i \in stops : e <= i

\* C18: the group collected at cursor c is exactly the lines c..e of the
\* cursor's section, e being the first index from c on without
\* group_with_next or else the last index; every line of it but the last has
\* group_with_next.
C18_GroupIsRunToFirstUngrouped ==
    spoken # << >> =>
        LET c == currentLineIndex
            e == GroupEnd(CursorLines, c)
        IN  /\ spoken = [i \in 1..(e - c + 1) |-> << currentSectionIndex, c + i - 1 >>]
            /\ \A i \in 1..(Len(spoken) - 1) :
                   CursorLines[spoken[i][2] + 1].group_with_next

\* a group of two lines taken from the middle of a section and ended by a
\* line without group_with_next that is not the section's last
C18_Witness ==
    /\ Len(spoken) = 2
    /\ currentLineIndex = 1
    /\ Len(CursorLines) = 4
    /\ ~CursorLines[3].group_with_next

\* C19: grouping ends having visited each line at most once and no line
\* beyond the end of the section, also when every line of the section,
\* the last included, has group_with_next.
C19_GroupingBounded ==
    spoken # << >> =>
        /\ \A i, j \in 1..Len(spoken) : i < j => spoken[i][2] < spoken[j][2]
        /\ \A i \in 1..Len(spoken) : spoken[i][2] < Len(CursorLines)
        /\ Len(spoken) <= Len(CursorLines) - currentLineIndex

\* a section whose lines all have group_with_next, collected from its start
C19_Witness ==
    /\ Len(spoken) = Len(CursorLines)
    /\ Len(CursorLines) >= 2
    /\ \A i \in 1..Len(CursorLines) : CursorLines[i].group_with_next

\* ----- the flags of a group -----

Live == {utterances[i] : i \in {j \in 1..Len(utterances) : ~utterances[j].cancelled}}

\* the lines of the unit u, first to anchor
LinesOf(u) ==
    {SectionOf(u).script_lines[i + 1] : i \in u.first..u.lastLineIndex}

NamesDocument(line) ==
    line.action_required \in {"customer_shows_pan", "customer_shows_aadhaar"}

DocumentOf(line) ==
    IF line.action_required = "customer_shows_pan" THEN "pan" ELSE "aadhaar"

WithoutUtterance(i) == [Cur EXCEPT !.utterances = spliceOne(@, i)]

\* a running session that is neither waiting for the operator nor narrating
Stuck(s) ==
    /\ s.isAutoPlaying
    /\ ~Waiting(s.ui)
    /\ \A j \in 1..Len(s.utterances) : s.utterances[j].cancelled

\* C21: the error event of a narration leaves the page in the state its end
\* event would have left it in, and after the error of the narration being
\* spoken a running session waits, narrates the next unit or has terminated.
C21_ErrorIsCompletion ==
    page = "assistant" =>
        \A i \in 1..Len(utterances) :
            LET u == utterances[i]
                a == WithoutUtterance(i)
            IN  /\ onerror(a, u) = onend(a, u)
                /\ (isAutoPlaying /\ ~u.cancelled) => ~Stuck(onerror(a, u))

\* the second unit of a running session is being narrated
C21_Witness ==
    /\ page = "assistant"
    /\ isAutoPlaying
    /\ \E u \in Live : u.first > 0 \/ u.sec > 0

\* ----- the cursor while the session waits -----

AwaitingUser == page = "assistant" /\ isAutoPlaying /\ Waiting(ui)

LastSpoken == spoken[Len(spoken)]

NextSection(c) ==
    LET n == Len(scriptData.sections)
        later == {j \in (c + 1)..(n - 1) :
                     scriptData.sections[j + 1].script_lines # << >>}
    IN  IF later = { } THEN n ELSE CHOOSE j \in later : \A k \in later : j <= k

OnLastLineOfSection ==
    /\ currentSectionIndex < Len(scriptData.sections)
    /\ currentLineIndex + 1 = Len(CursorLines)

\* state r is what section exhaustion at the current section must lead to
MovedOn(r) ==
    LET k == NextSection(currentSectionIndex)
    IN  IF k < Len(scriptData.sections)
        THEN /\ r.isAutoPlaying
             /\ r.currentSectionIndex = k
             /\ r.currentLineIndex = 0
             /\ \E j \in 1..Len(r.utterances) :
                    /\ ~r.utterances[j].cancelled
                    /\ r.utterances[j].sec = k
                    /\ r.utterances[j].first = 0
        ELSE /\ ~r.isAutoPlaying
             /\ ~r.isRecording
             /\ r.currentSectionIndex = Len(scriptData.sections)
             /\ r.mediaRecorder # 0
             /\ r.recorders[r.mediaRecorder].state # "recording"
             /\ \A j \in 1..Len(r.utterances) : r.utterances[j].cancelled

\* C23: when an advance takes the line index to the end of the current
\* section, the session moves to line 0 of the next section that has lines
\* and narrates its first unit, or, when there is no such section, it
\* terminates with the recorder stopped.
C23_SectionExhaustion ==
    (page = "assistant" /\ isAutoPlaying) =>
        /\ (ui.videoOverlay /\ OnLastLineOfSection) =>
               MovedOn(handleNextQuestion(Cur))
        /\ (ui.captureOverlay /\ ui.captureNextBtn /\ OnLastLineOfSection) =>
               MovedOn(handleCaptureNext(Cur))
        /\ \A i \in 1..Len(utterances) :
               LET u == utterances[i]
               IN  ( /\ ~u.cancelled
                     /\ u.isAutoTerminate
                     /\ IsFinalUnit(u) )
                   => MovedOn(onComplete(WithoutUtterance(i), u))

\* the first unit of the second section is narrated after the first section
\* was narrated to its end
C23_Witness ==
    /\ page = "assistant"
    /\ isAutoPlaying
    /\ currentSectionIndex = 1
    /\ currentLineIndex = 0
    /\ \E u \in Live : u.sec = 1 /\ u.first = 0
    /\ \E i \in 1..Len(spoken) : spoken[i][1] = 0

\* ----- waiting for Next -----

AwaitingAdvance == AwaitingUser /\ ui.videoOverlay

Narration == << currentSectionIndex, currentLineIndex, utterances, spoken >>

\* C24: while the Next overlay is shown in a running session, the cursor
\* moves and a narration starts only by the step that handleNextQuestion
\* makes; a timer tick or any other event leaves cursor and speech as they
\* are.
C24_OnlyNextAdvances ==
    [][ (AwaitingAdvance /\ Cur' # handleNextQuestion(Cur))
            => Narration' = Narration ]_vars

\* the timer has ticked while the session waits for Next
C24_Witness ==
    /\ AwaitingAdvance
    /\ seconds > 0
    /\ utterances = << >>

\* ----- leaving a capture step -----

AwaitingCapture == AwaitingUser /\ ui.captureOverlay

\* the image captured last is in the list, not confirmed, of the active type
CaptureInHand ==
    /\ capturedImages # << >>
    /\ capturedImages[Len(capturedImages)] \in Pending
    /\ capturedImages[Len(capturedImages)].type = currentCaptureType

\* C25: a step that leaves a capture step of a running session for the next
\* narration is taken with capture-Next displayed and with the image
\* captured in this step, not retaken since, in capturedImages.
C25_AdvanceNeedsCapture ==
    [][ (AwaitingCapture /\ Narration' # Narration)
            => (ui.captureNextBtn /\ CaptureInHand) ]_vars

\* the unit after a capture step is narrated, the captured image confirmed
C25_Witness ==
    /\ page = "assistant"
    /\ isAutoPlaying
    /\ confirmed # { }
    /\ \E u \in Live : u.sec = 1

\* ----- progress bars -----

InUnitInterval(w) == w[2] > 0 /\ w[1] <= w[2]

\* C26: every width the bars have been given is a fraction in [0,1]: 1 for
\* sections before the cursor's, lineIndex / totalLines for the cursor's
\* section, 0 for the sections after it.
C26_ProgressInUnitInterval ==
    page = "assistant" =>
        \A i \in 1..NumBars : InUnitInterval(progress[i])

Cursor == << currentSectionIndex, currentLineIndex >>

\* the bars show the fractions of the current cursor
ProgressFresh == updateProgressBars(Cur).progress = progress

\* C27: when a handler that moved the cursor has finished, every bar shows
\* the fraction defined for the new cursor.
C27_ProgressFollowsCursor ==
    [][ (page = "assistant" /\ Cursor' # Cursor) => ProgressFresh' ]_vars

\* ----- the recorded artifact -----

\* the stop task of recorder r runs in this step
StopTaskOf(r) ==
    /\ r \in 1..Len(recorders)
    /\ recorders[r].state = "stopping"
    /\ recorders'[r].state = "inactive"

\* C28: the artifact built when a recording stops holds, in arrival order,
\* exactly the non-empty chunks that recording's recorder delivered; nothing
\* else has been put into or taken out of the buffer.
C28_ArtifactIsOwnChunks ==
    [][ \A r \in 1..Len(recorders) :
          StopTaskOf(r) =>
              /\ ~videoBlob'.isNull
              /\ videoBlob'.parts = recordedChunks'
              /\ \A k \in 1..Len(videoBlob'.parts) :
                     videoBlob'.parts[k].recorder = r
              /\ \A k \in 1..Len(recordedChunks) :
                     recordedChunks[k].recorder = r ]_vars

\* C29 (as claimed): once the artifact has been built no step, on either
\* page, changes videoBlob, however often it is downloaded.
C29_ArtifactFixed ==
    [][ ~videoBlob.isNull => videoBlob' = videoBlob ]_vars

\* C29 (amended): in the scripted assistant no step changes videoBlob once it
\* has been built, a download included.
C29_AssistantArtifactFixed ==
    [][ (page = "assistant" /\ ~videoBlob.isNull)
            => videoBlob' = videoBlob ]_vars

\* the artifact of the scripted assistant has been downloaded
C29_Witness ==
    /\ page = "assistant"
    /\ ~videoBlob.isNull
    /\ videoBlob.parts # << >>
    /\ ui.videoFilename

\* ----- hand-over at termination -----

Terminates == page = "assistant" /\ isAutoPlaying /\ ~isAutoPlaying'

\* C30 (as claimed): a terminated session has posted its captured images
\* exactly once.
C30_SavedExactlyOnce ==
    (page = "assistant" /\ Terminated) => Len(saved) = 1

\* C30 (amended): the step that terminates a session stops the recorder and
\* posts the whole of capturedImages once if it holds an image and not at
\* all if it is empty; no other step posts images.
C30_SavedOnceIfAny ==
    [][ page = "assistant" =>
          IF Terminates
          THEN /\ saved = << >>
               /\ capturedImages' = capturedImages
               /\ saved' = IF capturedImages = << >> THEN << >>
                           ELSE << capturedImages >>
               /\ ~isRecording'
               /\ recorders'[mediaRecorder'].state = "stopping"
               /\ recorders'[mediaRecorder'].stops = 1
          ELSE saved' = saved ]_vars

\* a session ended by the script running out has posted its two images
C30_Witness ==
    /\ page = "assistant"
    /\ Terminated
    /\ Exhausted
    /\ Len(capturedImages) = 2
    /\ saved = << capturedImages >>

\* ----- failed submissions -----

Failures == Outcomes \ {"success"}

\* C31: a submission of the captured images or of the metadata that fails
\* is not sent again and undoes nothing: when its failure arrives, nothing
\* but the request's being in flight changes (videoBlob, capturedImages,
\* the cursor, the terminated state and the requests sent stay as they are).
C31_FailureChangesNothing ==
    page = "assistant" =>
        /\ Len(saved) <= 1
        /\ requests.captures <= Len(saved)
        /\ requests.metadata <= requests.submitted
        /\ \A outcome \in Failures :
               /\ requests.captures > 0 =>
                      capturesResponse(Cur, outcome) =
                          [Cur EXCEPT !.requests.captures = @ - 1]
               /\ requests.metadata > 0 =>
                      metadataResponse(Cur, outcome) =
                          [Cur EXCEPT !.requests.metadata = @ - 1]

\* both submissions of a terminated session have been answered
C31_Witness ==
    /\ page = "assistant"
    /\ Terminated
    /\ Len(saved) = 1
    /\ requests = [captures |-> 0, metadata |-> 0, submitted |-> 1]
    /\ ~videoBlob.isNull

\* ----- no capture device -----

\* what a session would have changed
SessionState(s) ==
    << s.isRecording, s.isAutoPlaying, s.currentSectionIndex, s.currentLineIndex,
       s.utterances, s.spoken, s.timerInterval >>

\* C32: without a stream, or when constructing or starting the MediaRecorder
\* throws, no session begins: isRecording and isAutoPlaying are false,
\* nothing is narrated and the cursor is where it was.
C32_NoSessionWithoutDevice ==
    (page = "assistant" /\ ~SessionBegun) =>
        /\ ~isRecording /\ ~isAutoPlaying
        /\ utterances = << >> /\ spoken = << >>
        /\ Cursor = << 0, 0 >>
        /\ \A fail \in Fails :
               (stream # "live" \/ fail # "none") =>
                   SessionState(startRecording(Cur, fail)) = SessionState(Cur)

\* a script is loaded and a Start has failed in mediaRecorder.start()
C32_Witness ==
    /\ page = "assistant"
    /\ scriptData.kind = "script" /\ scriptData.sections # << >>
    /\ mediaRecorder # 0
    /\ ~SessionBegun

\* ----- progress of a session -----

\* Every utterance ends or errors, the operator clicks Next when it is
\* offered, captures and confirms when the capture overlay is shown, and a
\* stopped recorder fires its events.
Fairness ==
    /\ WF_vars(SpeechEvent)
    /\ WF_vars(ClickNext)
    /\ SF_vars(ClickCapture)
    /\ SF_vars(ClickCaptureNext)
    /\ WF_vars(RecorderStopped)

SpecFair == Spec /\ Fairness

\* C33: under these assumptions every session that startRecording began
\* ends terminated, with the recorder stopped.
C33_SessionsTerminate ==
    (page = "assistant" /\ SessionBegun) ~> (Terminated /\ ~isRecording)


\* ----- narrations superseded by a later speakText call -----

\* the state in which the completion of narration i is delivered, after a
\* later call of speakText (here through handleNextQuestion) replaced it
SupersededBy(n, i) == [n EXCEPT !.utterances = spliceOne(@, i)]

C35_PlayingImpliesRecording ==
    isAutoPlaying => isRecording

\* the playback is running on a live recording: a second unit was narrated
\* and waits for the operator
C35_Witness ==
    /\ page = "assistant"
    /\ isAutoPlaying
    /\ isRecording
    /\ ui.videoOverlay
    /\ Len(spoken) >= 2


\* ----- the cursor and the bounds of the script -----

\* playNextLine gets past its guard (part_002:183) and reads
\* scriptData.sections[currentSectionIndex] (185)
ReadsSection(s) == ~ScriptIsNull(s) /\ s.isAutoPlaying /\ s.scriptData.kind = "script"

SectionInBounds(s) == s.currentSectionIndex < Len(s.scriptData.sections)

LineInBounds(s) ==
    /\ SectionInBounds(s)
    /\ s.currentLineIndex >= 0
    /\ s.currentLineIndex <
           Len(s.scriptData.sections[s.currentSectionIndex + 1].script_lines)

\* C36 (as claimed): with any script loaded, a session that startRecording
\* leaves running has its section index below the number of sections, a
\* running session keeps it there, and while a unit is spoken or awaited the line
\* index addresses a line of that section.
C36_CursorInBounds ==
    (page = "assistant" /\ scriptData.kind = "script") =>
        /\ (stream = "live" /\ ~ui.startBtnDisabled) =>
               LET n == startRecording(Cur, "none")
               IN  ReadsSection(n) => SectionInBounds(n)
        /\ ReadsSection(Cur) => SectionInBounds(Cur)
        /\ (isAutoPlaying /\ (InFlight(Cur) > 0 \/ Waiting(ui))) => LineInBounds(Cur)


\* ----- the tag of a captured image -----

\* Capture steps with and without a document named in their unit, and a
\* plain line: the scripted assistant on the scripts made of these.
TagCatalogue ==
    { Section(FALSE, << CapturePan >>), Section(FALSE, << CaptureBare >>),
      Section(FALSE, << Plain >>) }

TagDocuments ==
    { [kind |-> "script", sections |-> sc] : sc \in SeqsUpTo(TagCatalogue, MaxSections) }

LoadTagScript ==
    /\ page = "assistant"
    /\ scriptData.kind = "pending"
    /\ \/ \E d \in TagDocuments : Becomes([Cur EXCEPT !.scriptData = d])
       \/ Becomes([Cur EXCEPT !.scriptData = [kind |-> "failed", sections |-> << >>]])

NextTags ==
    \/ InitializeWebcam
    \/ LoadTagScript
    \/ ClickStart
    \/ ClickStop
    \/ ClickNext
    \/ ClickCapture
    \/ ClickRetake
    \/ ClickCaptureNext
    \/ ClickDownload
    \/ SpeechEvent
    \/ TimerTick
    \/ RecorderStopped

SpecTags == InitPersist /\ [][NextTags]_vars

\* the documents named by the lines of the unit whose anchor the cursor is on
UnitTags ==
    LET unit == { i \in 0..currentLineIndex :
                     \A k \in i..(currentLineIndex - 1) : CursorLines[k + 1].group_with_next }
    IN  { DocumentOf(CursorLines[i + 1]) :
              i \in { j \in unit : NamesDocument(CursorLines[j + 1]) } }

\* C37 (as claimed): no captured image has the type null, and the image
\* captured in the capture step being awaited has the type of a document
\* that the step's own unit names.
C37_ImageCarriesUnitTag ==
    page = "assistant" =>
        /\ \A i \in 1..Len(capturedImages) : capturedImages[i].type # "null"
        /\ (AwaitingCapture /\ ui.retakeBtn) =>
               capturedImages[Len(capturedImages)].type \in UnitTags


\* ----- consecutive recordings of the simplified recorder -----

IsOwnChunk(c) == c.recorder = mediaRecorder

\* the chunks in the buffer that the running recorder delivered
OwnChunks == SelectSeq(recordedChunks, IsOwnChunk)

\* C38 (as claimed): while a recording of the simplified recorder runs, no
\* step of an earlier recording (its stop task, the answer to its
\* conversion, its download clean-up) discards chunks of the running one or
\* sets its timer back.
C38_RecordingsDoNotInterfere ==
    [][ (page = "recorder" /\ isRecording /\ isRecording') =>
            /\ IsPrefix(OwnChunks, OwnChunks')
            /\ seconds' >= seconds ]_vars

=============================================================================
